---- MODULE Spec2Model ----
(***************************************************************************)
(* Model of tools/search_tweets.py: the command-line front end that merges *)
(* three configuration sources, validates the result, consumes a result    *)
(* stream and exports the collected records to CSV and/or JSON.            *)
(*                                                                         *)
(* Python values are modelled as strings: None is "None", the booleans are *)
(* "True" and "False".  A dict is a function whose DOMAIN is its key set.  *)
(* A result record (a tweet) is a sequence of <<key, value>> pairs, which  *)
(* keeps the insertion order of its keys.                                  *)
(***************************************************************************)
EXTENDS Integers, Sequences, FiniteSets, TLC

VARIABLES pc,              \* position in main() / in the function under study
          args_dict,       \* vars(parse_args())
          configfile_dict, \* read_config(...) or {}
          creds_dict,      \* load_credentials(...)
          config_dict,     \* the merged (effective) configuration
          logged,          \* dicts handed to logger.debug after filtering
          missing_keys,    \* the set printed when validation fails
          exit_code,       \* -1 while running, else the process exit status
          rs_results,      \* the records the constructed stream will yield
          pos,             \* number of records pulled from the stream so far
          passes,          \* number of `for tweet in stream` loops started
          wrapped,         \* stream goes through write_result_stream
          printed,         \* records echoed to stdout, in order
          all_tweets,      \* the accumulation buffer used for export
          files,           \* export artifacts on disk: filename -> content
          dict_,           \* argument of _filter_sensitive_args
          filtered         \* its return value

vars == <<pc, args_dict, configfile_dict, creds_dict, config_dict, logged,
          missing_keys, exit_code, rs_results, pos, passes, wrapped, printed,
          all_tweets, files, dict_, filtered>>

----------------------------------------------------------------------------
(* Bounds *)

MaxLen == 2

----------------------------------------------------------------------------
(* Python helpers *)

None == "None"

EmptyDict == [k \in {} |-> None]

\* dict.get(k): the value, or None when the key is absent
Get(d, k) == IF k \in DOMAIN d THEN d[k] ELSE None

\* dict.get(k, default)
GetDefault(d, k, default) == IF k \in DOMAIN d THEN d[k] ELSE default

\* truth value of a Python object in an `if`
Truthy(v) == v \notin {"None", "False", ""}

\* the keys of d whose value is not None
NonNullKeys(d) == {k \in DOMAIN d : d[k] # None}

\* sequences over S of length at most n
SeqsUpTo(S, n) == UNION {[1..m -> S] : m \in 0..n}

----------------------------------------------------------------------------
(* Program constants and pure functions *)

REQUIRED_KEYS == {"pt_rule", "endpoint"}

sens_args == {"password", "consumer_key", "consumer_secret", "bearer_token"}

\* variant: the denylist misses bearer_token
_filter_sensitive_args_ShortList(d) ==
    [k \in (DOMAIN d) \ {"password", "consumer_key", "consumer_secret"} |-> d[k]]

_filter_sensitive_args(d) == [k \in (DOMAIN d) \ sens_args |-> d[k]]

\* variant: null values are not dropped
dict_filter_KeepNull(x) == x

dict_filter(x) == [k \in {j \in DOMAIN x : x[j] # None} |-> x[k]]

\* dict1.copy(); update(dict2)
_merge_dicts(dict1, dict2) ==
    [k \in (DOMAIN dict1) \cup (DOMAIN dict2) |->
        IF k \in DOMAIN dict2 THEN dict2[k] ELSE dict1[k]]

\* reduce(_merge_dicts, dicts): later arguments win on key collision
merge_dicts(d1, d2, d3) == _merge_dicts(_merge_dicts(d1, d2), d3)

\* variant: the sources are handed over in the opposite order
MergeSources_Reversed(file, creds, args) ==
    merge_dicts(dict_filter(args), dict_filter(creds), dict_filter(file))

\* variant: credentials are handed over last
MergeSources_CredsLast(file, creds, args) ==
    merge_dicts(dict_filter(file), dict_filter(args), dict_filter(creds))

\* main, lines 218-220: the order in which the sources are handed over
MergeSources(file, creds, args) ==
    merge_dicts(dict_filter(file), dict_filter(creds), dict_filter(args))

\* variant: validation passes as soon as one required key is present
ValidationFails_AnyKey(cfg) ==
    Cardinality(DOMAIN dict_filter(cfg) \cap REQUIRED_KEYS) < 1

\* main, line 225
ValidationFails(cfg) ==
    Cardinality(DOMAIN dict_filter(cfg) \cap REQUIRED_KEYS)
        < Cardinality(REQUIRED_KEYS)

\* main, line 226
MissingKeys(cfg) == REQUIRED_KEYS \ DOMAIN dict_filter(cfg)

----------------------------------------------------------------------------
(* Inputs *)

\* vars(parse_args()): every dest is always present; print_stream,
\* output_filename (and env_overwrite, debug) are never None.
ArgsDicts ==
    { [config_filename |-> cf, pt_rule |-> r, extra_headers |-> h,
       print_stream |-> p, output_filename |-> o, export |-> e,
       filename_prefix |-> fp, credential_file |-> None,
       env_overwrite |-> "True", debug |-> "False"] :
        cf \in {None, "cfg.yaml"}, r \in {None, "cli_rule"},
        h \in {None, "cli_hdr"}, p \in {"True", "False"},
        o \in {"tweets_output", "out"}, e \in {None, "both"},
        fp \in {None, "pre"} }

FileDicts ==
    { EmptyDict,
      [pt_rule |-> "file_rule"],
      [pt_rule |-> "file_rule", endpoint |-> "file_ep",
       extra_headers_dict |-> "file_hdr", print_stream |-> "False",
       output_filename |-> "file_out", export |-> "json",
       password |-> "file_pw"],
      [pt_rule |-> None, endpoint |-> "file_ep", export |-> "csv"] }

CredsDicts ==
    { EmptyDict,
      [endpoint |-> "cred_ep", bearer_token |-> "tok"],
      [endpoint |-> "cred_ep", password |-> "pw", username |-> "u",
       extra_headers_dict |-> "cred_hdr"],
      [endpoint |-> None, pt_rule |-> "cred_rule", print_stream |-> "True",
       output_filename |-> "cred_out"] }

\* result records: {a:1}, {a:2,b:3}, {b:4}
Records == { << <<"a", "1">> >>,
             << <<"a", "2">>, <<"b", "3">> >>,
             << <<"b", "4">> >> }

Streams == SeqsUpTo(Records, MaxLen)

----------------------------------------------------------------------------
(* csv.DictWriter and the two writers *)

\* rowdict.keys()
Keys(rec) == [i \in 1..Len(rec) |-> rec[i][1]]

KeySet(rec) == {rec[i][1] : i \in 1..Len(rec)}

\* rowdict.get(key, restval) with restval = ''
Value(rec, key) ==
    IF key \in KeySet(rec)
    THEN rec[CHOOSE i \in 1..Len(rec) : rec[i][1] = key][2]
    ELSE ""

\* DictWriter._dict_to_list: the row in header order
Row(fieldnames, rec) == [i \in 1..Len(fieldnames) |-> Value(rec, fieldnames[i])]

\* DictWriter is built with the default extrasaction='raise': a row with a key
\* outside fieldnames raises ValueError
RowRaises(fieldnames, rec) ==
    KeySet(rec) \ {fieldnames[i] : i \in 1..Len(fieldnames)} # {}

\* number of leading records writerows() gets through before it raises
RECURSIVE RowsWritten(_, _)
RowsWritten(fieldnames, tweets) ==
    IF tweets = <<>> \/ RowRaises(fieldnames, Head(tweets))
    THEN 0
    ELSE 1 + RowsWritten(fieldnames, Tail(tweets))

\* save_to_csv raises out of writer.writerows
CsvRaises(tweets) ==
    tweets # <<>> /\ RowsWritten(Keys(tweets[1]), tweets) < Len(tweets)

\* the content of the file save_to_csv leaves behind (tweets non-empty)
CsvContent(tweets) ==
    LET keys == Keys(tweets[1])
        n    == RowsWritten(keys, tweets)
    IN  [format |-> "csv", header |-> keys,
         rows |-> [i \in 1..n |-> Row(keys, tweets[i])]]

\* the content of the file save_to_json writes (tweets non-empty)
JsonContent(tweets) == [format |-> "json", records |-> tweets]

\* save_to_csv(tweets, filename): the file system afterwards
save_to_csv(fs, tweets, filename) ==
    IF tweets = <<>>
    THEN fs
    ELSE [f \in (DOMAIN fs) \cup {filename} |->
            IF f = filename THEN CsvContent(tweets) ELSE fs[f]]

\* save_to_json(tweets, filename): the file system afterwards
save_to_json(fs, tweets, filename) ==
    IF tweets = <<>>
    THEN fs
    ELSE [f \in (DOMAIN fs) \cup {filename} |->
            IF f = filename THEN JsonContent(tweets) ELSE fs[f]]

\* f"{output_base}.csv" / f"{output_base}.json"
CsvName(base) == <<base, "csv">>
JsonName(base) == <<base, "json">>

\* main, lines 258-265
ExportFiles(fs, cfg, tweets) ==
    LET export_type == Get(cfg, "export")
        output_base == GetDefault(cfg, "output_filename", "tweets_output")
    IN  IF Truthy(export_type) /\ tweets # <<>>
        THEN LET afterCsv ==
                   IF export_type \in {"csv", "both"}
                   THEN save_to_csv(fs, tweets, CsvName(output_base))
                   ELSE fs
             IN  IF export_type \in {"csv", "both"} /\ CsvRaises(tweets)
                 THEN afterCsv
                 ELSE IF export_type \in {"json", "both"}
                      THEN save_to_json(afterCsv, tweets, JsonName(output_base))
                      ELSE afterCsv
        ELSE fs

\* the export block ends in an uncaught ValueError
ExportRaises(cfg, tweets) ==
    /\ Truthy(Get(cfg, "export"))
    /\ Get(cfg, "export") \in {"csv", "both"}
    /\ CsvRaises(tweets)

----------------------------------------------------------------------------
(* The run of main() *)

Init ==
    /\ pc = "start"
    /\ args_dict = EmptyDict
    /\ configfile_dict = EmptyDict
    /\ creds_dict = EmptyDict
    /\ config_dict = EmptyDict
    /\ logged = <<>>
    /\ missing_keys = {}
    /\ exit_code = -1
    /\ rs_results = <<>>
    /\ pos = 0
    /\ passes = 0
    /\ wrapped = FALSE
    /\ printed = <<>>
    /\ all_tweets = <<>>
    /\ files = EmptyDict
    /\ dict_ = EmptyDict
    /\ filtered = EmptyDict

\* line 191
ParseArgs ==
    /\ pc = "start"
    /\ \E a \in ArgsDicts : args_dict' = a
    /\ pc' = "parsed"
    /\ UNCHANGED <<configfile_dict, creds_dict, config_dict, logged,
                   missing_keys, exit_code, rs_results, pos, passes, wrapped,
                   printed, all_tweets, files, dict_, filtered>>

\* lines 203-206: --extra-headers is parsed and moved to extra_headers_dict
WithExtraHeaders(a) ==
    IF Get(a, "extra_headers") # None
    THEN [k \in ((DOMAIN a) \ {"extra_headers"}) \cup {"extra_headers_dict"} |->
            IF k = "extra_headers_dict" THEN a["extra_headers"] ELSE a[k]]
    ELSE a

\* lines 198-209
LoadConfig ==
    /\ pc = "parsed"
    /\ IF Get(args_dict, "config_filename") # None
       THEN \E f \in FileDicts : configfile_dict' = f
       ELSE configfile_dict' = EmptyDict
    /\ args_dict' = WithExtraHeaders(args_dict)
    /\ logged' = Append(logged, _filter_sensitive_args(configfile_dict'))
    /\ pc' = "config_loaded"
    /\ UNCHANGED <<creds_dict, config_dict, missing_keys, exit_code,
                   rs_results, pos, passes, wrapped, printed, all_tweets,
                   files, dict_, filtered>>

\* lines 211-214
LoadCredentials ==
    /\ pc = "config_loaded"
    /\ \E c \in CredsDicts : creds_dict' = c
    /\ pc' = "creds_loaded"
    /\ UNCHANGED <<args_dict, configfile_dict, config_dict, logged,
                   missing_keys, exit_code, rs_results, pos, passes, wrapped,
                   printed, all_tweets, files, dict_, filtered>>

\* lines 216-223
Merge ==
    /\ pc = "creds_loaded"
    /\ config_dict' = MergeSources(configfile_dict, creds_dict, args_dict)
    /\ logged' = Append(logged, _filter_sensitive_args(config_dict'))
    /\ pc' = "merged"
    /\ UNCHANGED <<args_dict, configfile_dict, creds_dict, missing_keys,
                   exit_code, rs_results, pos, passes, wrapped, printed,
                   all_tweets, files, dict_, filtered>>

\* variant: a failed validation is reported but the run goes on
Validate_NoExit ==
    /\ pc = "merged"
    /\ IF ValidationFails(config_dict)
       THEN missing_keys' = MissingKeys(config_dict)
       ELSE UNCHANGED missing_keys
    /\ pc' = "validated"
    /\ UNCHANGED <<args_dict, configfile_dict, creds_dict, config_dict,
                   logged, exit_code, rs_results, pos, passes, wrapped,
                   printed, all_tweets, files, dict_, filtered>>

\* lines 225-228
Validate ==
    /\ pc = "merged"
    /\ IF ValidationFails(config_dict)
       THEN /\ missing_keys' = MissingKeys(config_dict)
            /\ exit_code' = 1
            /\ pc' = "exited"
       ELSE /\ pc' = "validated"
            /\ UNCHANGED <<missing_keys, exit_code>>
    /\ UNCHANGED <<args_dict, configfile_dict, creds_dict, config_dict,
                   logged, rs_results, pos, passes, wrapped, printed,
                   all_tweets, files, dict_, filtered>>

\* lines 230-243: the stream handle is constructed; rs_results is what the
\* remote API will yield through it
ConstructStream ==
    /\ pc = "validated"
    /\ \E s \in Streams : rs_results' = s
    /\ wrapped' = (Get(config_dict, "filename_prefix") # None)
    /\ pos' = 0
    /\ pc' = "echo_if"
    /\ UNCHANGED <<args_dict, configfile_dict, creds_dict, config_dict,
                   logged, missing_keys, exit_code, passes, printed,
                   all_tweets, files, dict_, filtered>>

\* line 245-246: the first `for tweet in stream` is entered or skipped;
\* line 251 runs when it is skipped
EchoIf ==
    /\ pc = "echo_if"
    /\ IF Truthy(config_dict["print_stream"])
       THEN /\ passes' = passes + 1
            /\ pc' = "echo_loop"
       ELSE /\ pc' = "collect_if"
            /\ UNCHANGED passes
    /\ UNCHANGED <<args_dict, configfile_dict, creds_dict, config_dict,
                   logged, missing_keys, exit_code, rs_results, pos, wrapped,
                   printed, all_tweets, files, dict_, filtered>>

\* lines 246-247 (and 251 on StopIteration): one next() on the generator
EchoNext ==
    /\ pc = "echo_loop"
    /\ IF pos < Len(rs_results)
       THEN /\ pos' = pos + 1
            /\ printed' = Append(printed, rs_results[pos + 1])
            /\ UNCHANGED pc
       ELSE /\ pc' = "collect_if"
            /\ UNCHANGED <<pos, printed>>
    /\ UNCHANGED <<args_dict, configfile_dict, creds_dict, config_dict,
                   logged, missing_keys, exit_code, rs_results, passes,
                   wrapped, all_tweets, files, dict_, filtered>>

\* lines 253-254: the second `for tweet in stream` is entered or skipped
CollectIf ==
    /\ pc = "collect_if"
    /\ IF Truthy(config_dict["print_stream"])
       THEN /\ passes' = passes + 1
            /\ pc' = "collect_loop"
       ELSE /\ pc' = "export"
            /\ UNCHANGED passes
    /\ UNCHANGED <<args_dict, configfile_dict, creds_dict, config_dict,
                   logged, missing_keys, exit_code, rs_results, pos, wrapped,
                   printed, all_tweets, files, dict_, filtered>>

\* lines 254-256: one next() on the same generator
CollectNext ==
    /\ pc = "collect_loop"
    /\ IF pos < Len(rs_results)
       THEN /\ pos' = pos + 1
            /\ printed' = Append(printed, rs_results[pos + 1])
            /\ all_tweets' = Append(all_tweets, rs_results[pos + 1])
            /\ UNCHANGED pc
       ELSE /\ pc' = "export"
            /\ UNCHANGED <<pos, printed, all_tweets>>
    /\ UNCHANGED <<args_dict, configfile_dict, creds_dict, config_dict,
                   logged, missing_keys, exit_code, rs_results, passes,
                   wrapped, files, dict_, filtered>>

\* lines 258-265, then the process ends
Export ==
    /\ pc = "export"
    /\ files' = ExportFiles(files, config_dict, all_tweets)
    /\ IF ExportRaises(config_dict, all_tweets)
       THEN pc' = "crashed" /\ exit_code' = 1
       ELSE pc' = "done" /\ exit_code' = 0
    /\ UNCHANGED <<args_dict, configfile_dict, creds_dict, config_dict,
                   logged, missing_keys, rs_results, pos, passes, wrapped,
                   printed, all_tweets, dict_, filtered>>

Next ==
    \/ ParseArgs
    \/ LoadConfig
    \/ LoadCredentials
    \/ Merge
    \/ Validate
    \/ ConstructStream
    \/ EchoIf
    \/ EchoNext
    \/ CollectIf
    \/ CollectNext
    \/ Export

Spec == Init /\ [][Next]_vars

----------------------------------------------------------------------------
(* The export block (main, lines 258-265, with save_to_csv and save_to_json) *)
(* applied to an arbitrary record list and configuration                     *)

ExportConfigs ==
    { [print_stream |-> "True", output_filename |-> o] :
        o \in {"tweets_output", "x"} }
    \cup
    { [print_stream |-> "True", output_filename |-> o, export |-> e] :
        o \in {"tweets_output", "x"}, e \in {"csv", "json", "both", "xml"} }

InitExport ==
    /\ pc = "export"
    /\ config_dict \in ExportConfigs
    /\ all_tweets \in SeqsUpTo(Records, MaxLen)
    /\ args_dict = EmptyDict
    /\ configfile_dict = EmptyDict
    /\ creds_dict = EmptyDict
    /\ logged = <<>>
    /\ missing_keys = {}
    /\ exit_code = -1
    /\ rs_results = <<>>
    /\ pos = 0
    /\ passes = 0
    /\ wrapped = FALSE
    /\ printed = <<>>
    /\ files = EmptyDict
    /\ dict_ = EmptyDict
    /\ filtered = EmptyDict

NextExport == Export

SpecExport == InitExport /\ [][NextExport]_vars

----------------------------------------------------------------------------
(* _filter_sensitive_args applied to an arbitrary mapping *)

FilterKeys ==
    {"password", "consumer_key", "consumer_secret", "bearer_token",
     "pt_rule", "endpoint"}

FilterInputs ==
    UNION { [K -> {"v", None}] : K \in SUBSET FilterKeys }

InitFilter ==
    /\ pc = "filter_call"
    /\ dict_ \in FilterInputs
    /\ filtered = EmptyDict
    /\ args_dict = EmptyDict
    /\ configfile_dict = EmptyDict
    /\ creds_dict = EmptyDict
    /\ config_dict = EmptyDict
    /\ logged = <<>>
    /\ missing_keys = {}
    /\ exit_code = -1
    /\ rs_results = <<>>
    /\ pos = 0
    /\ passes = 0
    /\ wrapped = FALSE
    /\ printed = <<>>
    /\ all_tweets = <<>>
    /\ files = EmptyDict

\* lines 160-162
ApplyFilter ==
    /\ pc = "filter_call"
    /\ filtered' = _filter_sensitive_args(dict_)
    /\ pc' = "filter_return"
    /\ UNCHANGED <<args_dict, configfile_dict, creds_dict, config_dict,
                   logged, missing_keys, exit_code, rs_results, pos, passes,
                   wrapped, printed, all_tweets, files, dict_>>

NextFilter == ApplyFilter

SpecFilter == InitFilter /\ [][NextFilter]_vars

----------------------------------------------------------------------------
(* Properties *)

\* the merge has happened: config_dict holds the effective configuration
Merged ==
    pc \in {"merged", "validated", "exited", "echo_if", "echo_loop",
            "collect_if", "collect_loop", "export", "done", "crashed"}

\* the stream handle has been constructed
Constructed ==
    pc \in {"echo_if", "echo_loop", "collect_if", "collect_loop", "export",
            "done", "crashed"}

\* the export block has run
Exported == pc \in {"done", "crashed"}

SourceKeys ==
    (DOMAIN args_dict) \cup (DOMAIN creds_dict) \cup (DOMAIN configfile_dict)

\* the artifact `content` holds exactly the records recs, in order
FileHolds(content, recs) ==
    IF content.format = "json"
    THEN content.records = recs
    ELSE /\ Len(content.rows) = Len(recs)
         /\ \A i \in 1..Len(recs) :
               content.rows[i] = Row(content.header, recs[i])

\* C1: when export is requested and the stream has at least one record, the
\* finished run has written an artifact holding every record of the stream
\* in arrival order, with console echo enabled or disabled.
C1_ExportHoldsAllRecords ==
    (/\ pc = "done"
     /\ Get(config_dict, "export") \in {"csv", "json", "both"}
     /\ Len(rs_results) >= 1)
    => \E f \in DOMAIN files : FileHolds(files[f], rs_results)

\* C2: the stream handle is drained by exactly one consumption pass: never a
\* second `for` over the same handle, and once consumption is over the stream
\* has been iterated once and is exhausted.
C2_SinglePass ==
    /\ passes <= 1
    /\ (pc \in {"export", "done", "crashed"})
          => (passes = 1 /\ pos = Len(rs_results))

\* C3: a key that is non-null in more than one source takes the value of the
\* highest-precedence source: cli-args over credentials over file-config.
C3_Precedence ==
    Merged =>
      \A k \in SourceKeys :
        LET inCli   == k \in NonNullKeys(args_dict)
            inCreds == k \in NonNullKeys(creds_dict)
            inFile  == k \in NonNullKeys(configfile_dict)
        IN  ((inCli /\ inCreds) \/ (inCli /\ inFile) \/ (inCreds /\ inFile))
            => /\ k \in DOMAIN config_dict
               /\ config_dict[k] = IF inCli THEN args_dict[k]
                                   ELSE creds_dict[k]

C3_Witness ==
    /\ pc = "merged"
    /\ Get(args_dict, "extra_headers_dict") = "cli_hdr"
    /\ Get(creds_dict, "extra_headers_dict") = "cred_hdr"
    /\ Get(configfile_dict, "extra_headers_dict") = "file_hdr"
    /\ config_dict["extra_headers_dict"] = "cli_hdr"

\* C4: a source contributes a key only when its value is non-null: a key
\* that is null in cli-args, non-null in file-config and absent or null in
\* credentials takes the file-config value; sources with disjoint non-null
\* keys merge to the union of their non-null entries, values unchanged.
C4_NullContributesNothing ==
    Merged =>
      /\ DOMAIN config_dict =
            NonNullKeys(args_dict) \cup NonNullKeys(creds_dict)
                \cup NonNullKeys(configfile_dict)
      /\ \A k \in NonNullKeys(configfile_dict) :
            (Get(args_dict, k) = None /\ Get(creds_dict, k) = None)
            => config_dict[k] = configfile_dict[k]
      /\ (/\ NonNullKeys(args_dict) \cap NonNullKeys(creds_dict) = {}
          /\ NonNullKeys(args_dict) \cap NonNullKeys(configfile_dict) = {}
          /\ NonNullKeys(creds_dict) \cap NonNullKeys(configfile_dict) = {})
         => /\ \A k \in NonNullKeys(args_dict) : config_dict[k] = args_dict[k]
            /\ \A k \in NonNullKeys(creds_dict) : config_dict[k] = creds_dict[k]
            /\ \A k \in NonNullKeys(configfile_dict) :
                  config_dict[k] = configfile_dict[k]

C4_Witness ==
    /\ pc = "merged"
    /\ "pt_rule" \in DOMAIN args_dict /\ args_dict["pt_rule"] = None
    /\ Get(configfile_dict, "pt_rule") = "file_rule"
    /\ "pt_rule" \notin DOMAIN creds_dict
    /\ Get(creds_dict, "endpoint") = "cred_ep"
    /\ NonNullKeys(args_dict) \cap NonNullKeys(creds_dict) = {}
    /\ NonNullKeys(args_dict) \cap NonNullKeys(configfile_dict) = {}
    /\ NonNullKeys(creds_dict) \cap NonNullKeys(configfile_dict) = {}
    /\ config_dict["pt_rule"] = "file_rule"

\* C5: validation fails exactly when pt_rule or endpoint is absent or null in
\* the merged configuration, and the reported missing set is the required
\* keys minus the non-null keys of the merged configuration.
C5_ValidationIff ==
    LET required == {"pt_rule", "endpoint"}
        lacking  == {k \in required : Get(config_dict, k) = None}
    IN  /\ (pc = "exited") => (lacking # {} /\ missing_keys = lacking)
        /\ (pc = "validated" \/ Constructed) =>
              (lacking = {} /\ missing_keys = {})

C5_Witness ==
    /\ pc = "exited"
    /\ missing_keys = {"endpoint"}
    /\ Get(config_dict, "pt_rule") # None

\* C8: a stream is constructed only after the merge and a passed validation;
\* a failed validation ends the run with a non-zero exit status, no stream
\* constructed, no record pulled and no artifact written.
C8_ValidateBeforeStream ==
    /\ Constructed =>
          /\ Len(logged) = 2
          /\ config_dict = MergeSources(configfile_dict, creds_dict, args_dict)
          /\ \A k \in {"pt_rule", "endpoint"} : Get(config_dict, k) # None
    /\ (Merged /\ \E k \in {"pt_rule", "endpoint"} : Get(config_dict, k) = None)
          => /\ pc \in {"merged", "exited"}
             /\ pc = "exited" => exit_code = 1
             /\ rs_results = <<>> /\ pos = 0 /\ passes = 0
             /\ printed = <<>> /\ all_tweets = <<>>
             /\ files = EmptyDict

C8_Witness ==
    /\ pc = "exited"
    /\ exit_code = 1
    /\ missing_keys = {"pt_rule", "endpoint"}
    /\ rs_results = <<>>
    /\ files = EmptyDict

C6_CsvOneRowPerRecord ==
    (/\ Exported
     /\ Get(config_dict, "export") \in {"csv", "both"}
     /\ all_tweets # <<>>)
    => LET name == CsvName(config_dict["output_filename"])
       IN  /\ pc = "done"
           /\ name \in DOMAIN files
           /\ files[name].header = Keys(all_tweets[1])
           /\ Len(files[name].rows) = Len(all_tweets)

\* C7: the files written are exactly the requested ones: none for an empty
\* list or without an export option, <base>.csv for csv, <base>.json for
\* json, both for both.
C7_ExactlyRequestedFiles ==
    Exported =>
      LET e    == Get(config_dict, "export")
          base == config_dict["output_filename"]
      IN  DOMAIN files =
            IF all_tweets = <<>> THEN {}
            ELSE (IF e \in {"csv", "both"} THEN {CsvName(base)} ELSE {})
                 \cup (IF e \in {"json", "both"} THEN {JsonName(base)} ELSE {})

\* C9: the output of _filter_sensitive_args has none of the four secret keys,
\* has every other key of the input with its value, and the input is left
\* as it was.
C9_FilterContract ==
    [][(pc = "filter_call" /\ pc' = "filter_return") =>
         LET secret == {"password", "consumer_key", "consumer_secret",
                        "bearer_token"}
         IN  /\ DOMAIN filtered' = (DOMAIN dict_) \ secret
             /\ \A k \in DOMAIN filtered' : filtered'[k] = dict_[k]
             /\ dict_' = dict_]_vars

C9_Witness ==
    /\ pc = "filter_return"
    /\ {"password", "consumer_key", "consumer_secret", "bearer_token"}
          \subseteq DOMAIN dict_
    /\ DOMAIN filtered = {"pt_rule", "endpoint"}
    /\ filtered["pt_rule"] = "v"
    /\ filtered["endpoint"] = None

====
